---- MODULE Spec2Model ----
(***************************************************************************)
(* Model of the two benchmark notebooks of KirosG/Notebooks:               *)
(*   cuml/ridge_regression_demo.ipynb  (Ridge, "ridge")                    *)
(*   the SGD notebook                   (SGD,   "sgd")                     *)
(*                                                                         *)
(* Arrays and tables are modelled by provenance: a cell of an array is     *)
(* identified by the source row and the source column it was copied from, *)
(* so that slicing, fancy indexing and the train/test split can be        *)
(* followed exactly while the numeric values themselves stay abstract.    *)
(* The helper array_equal / to_nparray is modelled on concrete numbers.   *)
(***************************************************************************)
EXTENDS Integers, Sequences, FiniteSets, TLC

\* ---------------------------------------------------------------- bounds
MaxRows == 3        \* largest nrows passed to load_data
MaxCols == 6        \* largest ncols passed to load_data
MaxFileRows == 3    \* largest number of rows of the cached array
MaxFileCols == 7    \* largest number of columns of the cached array
MaxLen == 2         \* largest length of a 1-d helper input
MaxDim == 2         \* largest number of rows / columns of a 2-d helper input

\* ------------------------------------------------------ python primitives
Min(x, y) == IF x < y THEN x ELSE y

Max(x, y) == IF x > y THEN x ELSE y

\* range(n): the 0-based positions 0, 1, ..., n-1
Range(n) == [i \in 1..n |-> i - 1]

\* the positions selected by the slice [lo:hi] of a length-len axis
\* (non-negative lo, hi: both are clamped to len)
PySlice(lo, hi, len) ==
    LET start == Min(lo, len)
        stop  == Min(hi, len)
    IN  [k \in 1..Max(stop - start, 0) |-> start + k - 1]

\* A[idx, :] for a list of 0-based row positions
TakeRows(A, idx) == [A EXCEPT !.rows = [k \in 1..Len(idx) |-> A.rows[idx[k] + 1]]]

\* A[:, idx] for a list of 0-based column positions
TakeCols(A, idx) == [A EXCEPT !.cols = [k \in 1..Len(idx) |-> A.cols[idx[k] + 1]]]

\* 'fea%d' % i
FeaName(i) == <<"fea", i>>

\* pd.DataFrame({name_j : A[pos, j]}): the index of a frame is the common
\* length of its columns, and a frame built from an empty dict has no rows
FrameFromColumns(names, A, pos) ==
    LET k == Len(names)
    IN  [kind    |-> "pd.DataFrame",
         columns |-> names,
         src     |-> SubSeq(A.cols, 1, k),
         pos     |-> IF k = 0 THEN <<>> ELSE pos,
         rows    |-> IF k = 0 THEN <<>>
                     ELSE [p \in 1..Len(pos) |-> A.rows[pos[p] + 1]]]

\* pd.DataFrame({'fea%d'%i : A[lo:hi, i] for i in range(A.shape[1])})
FrameOf(A, lo, hi) ==
    FrameFromColumns([i \in 1..Len(A.cols) |-> FeaName(i - 1)], A,
                     PySlice(lo, hi, Len(A.rows)))

\* pd.DataFrame({'fea0' : y[lo:hi,]}) for the 1-d y of make_regression
FrameFea0(A, lo, hi) ==
    FrameFromColumns(<<FeaName(0)>>, A, PySlice(lo, hi, Len(A.rows)))

\* ------------------------------------------------------------- load_data
NoFile == [rows |-> 0, cols |-> 0, present |-> FALSE]

\* the array np.load returns for a cached file of the given shape
LoadedArray(file) ==
    [ndim |-> 2,
     rows |-> Range(file.rows),
     cols |-> [j \in 1..file.cols |-> <<"file", j - 1>>]]

\* index of the column the code comment names as the label
LabelCol == 4

\* variant: the training share rounded up instead of truncated
TrainRows_RoundUp(nrows) == nrows - (nrows \div 5)

\* int(nrows*0.8)
TrainRows(nrows) == (4 * nrows) \div 5

\* X = X[:,[i for i in range(X.shape[1]) if i!=4]]
DropLabel(X) ==
    TakeCols(X, SelectSeq(Range(Len(X.cols)), LAMBDA i : i # LabelCol))

\* y = X[:,4:5], evaluated on the X in scope at that line
PickLabel(X) == TakeCols(X, PySlice(LabelCol, LabelCol + 1, Len(X.cols)))

\* variant: the cached branch taken without testing the path
PathExists_Always(file) == TRUE

\* os.path.exists(cached)
PathExists(file) == file.present

\* the synthetic dataset: make_regression (ridge), rand/randint (sgd)
RandomX(n, nr, nc) ==
    [ndim |-> 2, rows |-> Range(nr), cols |-> [j \in 1..nc |-> <<"Xgen", j - 1>>]]

RandomY(n, nr) ==
    [ndim |-> IF n = "ridge" THEN 1 ELSE 2, rows |-> Range(nr),
     cols |-> <<<<"ygen", 0>>>>]

EmptyArray == [ndim |-> 2, rows |-> <<>>, cols |-> <<>>]

\* np.random.randint(0, X.shape[0]-1, nrows) raises when the range is empty;
\* whether it also raises for an empty range when no sample is drawn
\* depends on the numpy build (emptyOK)
RandintRaises(high, size, emptyOK) == high <= 0 /\ (size > 0 \/ ~emptyOK)

\* the sets of index vectors randint can return
RandintResults(high, size) ==
    IF high <= 0 THEN {<<>>} ELSE [1..size -> 0..(high - 1)]

\* the whole of load_data; rindices and emptyOK resolve np.random
load_data(n, nr, nc, file, rindices, emptyOK) ==
    LET train_rows == TrainRows(nr)
        cached   == PathExists(file)
        X0       == LoadedArray(file)
        X1       == DropLabel(X0)
        y1       == PickLabel(X1)
        raised   == cached /\ RandintRaises(Len(X1.rows) - 1, nr, emptyOK)
        X  == IF cached
              THEN TakeCols(TakeRows(X1, rindices),
                            PySlice(0, nc, Len(X1.cols)))
              ELSE RandomX(n, nr, nc)
        y  == IF cached THEN TakeRows(y1, rindices) ELSE RandomY(n, nr)
        df_X_train == FrameOf(X, 0, train_rows)
        df_X_test  == FrameOf(X, train_rows, Len(X.rows))
        df_y_train == IF n = "ridge" /\ ~cached
                      THEN FrameFea0(y, 0, train_rows)
                      ELSE FrameOf(y, 0, train_rows)
        df_y_test  == IF n = "ridge" /\ ~cached
                      THEN FrameFea0(y, train_rows, Len(y.rows))
                      ELSE FrameOf(y, train_rows, Len(y.rows))
    IN  [branch |-> IF cached THEN "cached" ELSE "random",
         read   |-> cached,
         raised |-> raised,
         loaded |-> IF cached THEN X0 ELSE EmptyArray,
         X      |-> IF raised THEN EmptyArray ELSE X,
         y      |-> IF raised THEN EmptyArray ELSE y,
         ret    |-> IF raised THEN <<>>
                    ELSE <<[name |-> "df_X_train", df |-> df_X_train],
                           [name |-> "df_X_test",  df |-> df_X_test],
                           [name |-> "df_y_train", df |-> df_y_train],
                           [name |-> "df_y_test",  df |-> df_y_test]>>]

\* ------------------------------------------------------------------ state
VARIABLES
    nb,           \* which notebook runs: "ridge" or "sgd"
    pc,           \* the next cell of the top-to-bottom run
    nrows, ncols, \* arguments of load_data
    file,         \* the cached file: NoFile or the shape of its array
    ld,           \* what load_data did: branch, file read, locals, result
    params,       \* the variables of the "set parameters" cell (sgd)
    y_train_ser,  \* y_train['fea0'] (sgd)
    sk, cu,       \* the two models: constructor arguments and fit inputs
    gpu,          \* X_cudf, X_cudf_test, y_cudf
    preds,        \* the predictions made so far
    errs,         \* error_sk and error_cu
    printed,      \* what the last cell printed
    a, b, threshold, with_sign,  \* arguments of array_equal
    na, nbb,      \* to_nparray(a), to_nparray(b)
    res,          \* result of the helper call
    epc           \* position of the helper call

loadVars == <<nb, nrows, ncols, file, ld>>

runVars == <<params, y_train_ser, sk, cu, gpu, preds, errs, printed>>

eqVars == <<a, b, threshold, with_sign, na, nbb, res, epc>>

vars == <<pc, loadVars, runVars, eqVars>>

\* the cached files considered: absent, or an array of some shape
Files ==
    {NoFile} \cup
    {[rows |-> r, cols |-> c, present |-> TRUE] :
        r \in 1..MaxFileRows, c \in 1..MaxFileCols}

LdInit ==
    [branch |-> "none", read |-> FALSE, raised |-> FALSE,
     loaded |-> EmptyArray, X |-> EmptyArray, y |-> EmptyArray, ret |-> <<>>]

NewModel(name) ==
    [name |-> name, constructed |-> FALSE, params |-> <<>>,
     fitted |-> FALSE, fitX |-> <<>>, fity |-> <<>>]

\* the tables bound by "X_train, X_test, y_train, y_test = load_data(...)"
X_train == ld.ret[1].df

X_test == ld.ret[2].df

y_train == ld.ret[3].df

y_test == ld.ret[4].df

\* ------------------------------------------------- library calls, abstract
\* a keyword argument: its source text and the variable it was read from
Lit(text) == [val |-> text, var |-> "literal"]

Var(name) == [val |-> params[name], var |-> name]

\* Model(**kwargs)
Construct(m, kwargs) == [m EXCEPT !.constructed = TRUE, !.params = kwargs]

\* model.fit(X, y)
Fit(m, X, y) == [m EXCEPT !.fitted = TRUE, !.fitX = <<X>>, !.fity = <<y>>]

\* model.predict(X)
Predict(m, X) == [by |-> m.name, fitted |-> m.fitted, on |-> X]

\* mean_squared_error(y_true, y_pred)
mean_squared_error(y_true, y_pred) == [truth |-> y_true, pred |-> y_pred]

\* df[name]: the column as a Series; KeyError when there is no such column
HasColumn(df, name) == \E j \in 1..Len(df.columns) : df.columns[j] = name

ColumnOf(df, name) ==
    LET j == CHOOSE i \in 1..Len(df.columns) : df.columns[i] = name
    IN  [kind |-> "pd.Series", columns |-> <<name>>, src |-> <<df.src[j]>>,
         pos |-> df.pos, rows |-> df.rows]

\* df.values[:,0]: IndexError when the frame has no column
FirstColumnValues(df) ==
    [kind |-> "ndarray", columns |-> <<>>, src |-> <<df.src[1]>>,
     pos |-> df.pos, rows |-> df.rows]

\* cudf.DataFrame.from_pandas(df)
from_pandas(df) == [df EXCEPT !.kind = "cudf.DataFrame"]

\* cudf.Series(x)
cudf_Series(x) == [x EXCEPT !.kind = "cudf.Series"]

\* -------------------------------------------------------------- the cells
Init ==
    /\ nb \in {"ridge", "sgd"}
    /\ nrows \in 0..MaxRows
    /\ ncols \in 0..MaxCols
    /\ file \in Files
    /\ pc = "load"
    /\ ld = LdInit
    /\ params = <<>>
    /\ y_train_ser = <<>>
    /\ sk = NewModel("sk")
    /\ cu = NewModel("cu")
    /\ gpu = <<>>
    /\ preds = {}
    /\ errs = <<>>
    /\ printed = <<>>
    /\ a = <<>> /\ b = <<>> /\ threshold = 0 /\ with_sign = TRUE
    /\ na = <<>> /\ nbb = <<>> /\ res = "none" /\ epc = "off"

\* X_train, X_test, y_train, y_test = load_data(nrows,ncols)
\* (sgd also: y_train_ser = y_train['fea0'])
LoadCell ==
    /\ pc = "load"
    /\ \E emptyOK \in BOOLEAN :
       \E rindices \in RandintResults(file.rows - 1, nrows) :
          LET r == load_data(nb, nrows, ncols, file, rindices, emptyOK)
              keyError == nb = "sgd" /\ ~r.raised
                          /\ ~HasColumn(r.ret[3].df, FeaName(0))
          IN  /\ ld' = r
              /\ y_train_ser' =
                    IF nb = "sgd" /\ ~r.raised /\ ~keyError
                    THEN <<ColumnOf(r.ret[3].df, FeaName(0))>>
                    ELSE <<>>
              /\ pc' = IF r.raised \/ keyError THEN "halted"
                       ELSE IF nb = "sgd" THEN "params" ELSE "sk_fit"
    /\ UNCHANGED <<nb, nrows, ncols, file, params, sk, cu, gpu, preds, errs,
                   printed, eqVars>>

\* #set parameters
ParamsCell ==
    /\ pc = "params"
    /\ params' = [learning_rate |-> "'adaptive'", datatype |-> "np.float32",
                  penalty |-> "'elasticnet'", loss |-> "'squared_loss'",
                  iterations |-> "10"]
    /\ pc' = "sk_fit"
    /\ UNCHANGED <<loadVars, y_train_ser, sk, cu, gpu, preds, errs, printed,
                   eqVars>>

\* skRidge(...).fit(X_train, y_train) / SGDRegressor(...).fit(X_train, y_train_ser)
SkFitCell ==
    /\ pc = "sk_fit"
    /\ sk' = IF nb = "ridge"
             THEN Fit(Construct(sk,
                        [fit_intercept |-> Lit("False"),
                         normalize |-> Lit("True"),
                         alpha |-> Lit("0.1")]),
                      X_train, y_train)
             ELSE Fit(Construct(sk,
                        [learning_rate |-> Var("learning_rate"),
                         eta0 |-> Lit("0.07"),
                         max_iter |-> Var("iterations"),
                         tol |-> Lit("0.0"),
                         fit_intercept |-> Lit("True"),
                         penalty |-> Var("penalty"),
                         loss |-> Var("loss")]),
                      X_train, y_train_ser[1])
    /\ pc' = "sk_predict"
    /\ UNCHANGED <<loadVars, params, y_train_ser, cu, gpu, preds, errs,
                   printed, eqVars>>

\* variant: the sklearn model is scored on the rows it was trained on
SkPredictCell_OnTrain ==
    /\ pc = "sk_predict"
    /\ LET y_sk == Predict(sk, X_train)
       IN  /\ preds' = preds \cup {y_sk}
           /\ errs' = Append(errs, [name |-> "error_sk",
                                    mse |-> mean_squared_error(y_train, y_sk)])
    /\ pc' = "to_cudf"
    /\ UNCHANGED <<loadVars, params, y_train_ser, sk, cu, gpu, printed,
                   eqVars>>

\* y_sk = sk.predict(X_test); error_sk = mean_squared_error(y_test, y_sk)
SkPredictCell ==
    /\ pc = "sk_predict"
    /\ LET y_sk == Predict(sk, X_test)
       IN  /\ preds' = preds \cup {y_sk}
           /\ errs' = Append(errs, [name |-> "error_sk",
                                    mse |-> mean_squared_error(y_test, y_sk)])
    /\ pc' = "to_cudf"
    /\ UNCHANGED <<loadVars, params, y_train_ser, sk, cu, gpu, printed,
                   eqVars>>

\* X_cudf, X_cudf_test = from_pandas(X_train), from_pandas(X_test)
\* y_cudf = cudf.Series(y_train.values[:,0]) / cudf.Series(y_train_ser)
ToCudfCell ==
    /\ pc = "to_cudf"
    /\ LET indexError == nb = "ridge" /\ Len(y_train.columns) = 0
       IN  /\ gpu' = IF indexError THEN <<>>
                     ELSE <<[X_cudf |-> from_pandas(X_train),
                             X_cudf_test |-> from_pandas(X_test),
                             y_cudf |-> IF nb = "ridge"
                                        THEN cudf_Series(FirstColumnValues(y_train))
                                        ELSE cudf_Series(y_train_ser[1])]>>
           /\ pc' = IF indexError THEN "halted" ELSE "cu_fit"
    /\ UNCHANGED <<loadVars, params, y_train_ser, sk, cu, preds, errs,
                   printed, eqVars>>

\* cuRidge(...).fit(X_cudf, y_cudf) / cumlSGD(...).fit(X_cudf, y_cudf)
CuFitCell ==
    /\ pc = "cu_fit"
    /\ cu' = IF nb = "ridge"
             THEN Fit(Construct(cu,
                        [fit_intercept |-> Lit("False"),
                         normalize |-> Lit("True"),
                         solver |-> Lit("'svd'"),
                         alpha |-> Lit("0.1")]),
                      gpu[1].X_cudf, gpu[1].y_cudf)
             ELSE Fit(Construct(cu,
                        [learning_rate |-> Var("learning_rate"),
                         eta0 |-> Lit("0.07"),
                         epochs |-> Var("iterations"),
                         batch_size |-> Lit("512"),
                         tol |-> Lit("0.0"),
                         penalty |-> Var("penalty"),
                         loss |-> Var("loss")]),
                      gpu[1].X_cudf, gpu[1].y_cudf)
    /\ pc' = "cu_predict"
    /\ UNCHANGED <<loadVars, params, y_train_ser, sk, gpu, preds, errs,
                   printed, eqVars>>

\* y_pred = cu.predict(X_cudf_test); error_cu = mean_squared_error(y_test, y_pred)
\* (the prediction is brought to a host array first: .to_array() in ridge,
\* to_nparray(y_pred).ravel() in sgd; its values stay abstract here)
CuPredictCell ==
    /\ pc = "cu_predict"
    /\ LET y_pred == Predict(cu, gpu[1].X_cudf_test)
       IN  /\ preds' = preds \cup {y_pred}
           /\ errs' = Append(errs, [name |-> "error_cu",
                                    mse |-> mean_squared_error(y_test, y_pred)])
    /\ pc' = "print"
    /\ UNCHANGED <<loadVars, params, y_train_ser, sk, cu, gpu, printed,
                   eqVars>>

\* the value bound to a name of the notebook, if any
ErrorNamed(name) == SelectSeq(errs, LAMBDA e : e.name = name)

\* print("SKL MSE(y):"); print(error_sk); print("CUML MSE(y):"); print(error_cu)
PrintCell ==
    /\ pc = "print"
    /\ printed' = <<[label |-> "SKL MSE(y):", value |-> ErrorNamed("error_sk")],
                    [label |-> "CUML MSE(y):", value |-> ErrorNamed("error_cu")]>>
    /\ pc' = "done"
    /\ UNCHANGED <<loadVars, params, y_train_ser, sk, cu, gpu, preds, errs,
                   eqVars>>

Next ==
    \/ LoadCell
    \/ ParamsCell
    \/ SkFitCell
    \/ SkPredictCell
    \/ ToCudfCell
    \/ CuFitCell
    \/ CuPredictCell
    \/ PrintCell

Spec == Init /\ [][Next]_vars

\* ---------------------------------------------------- claims on load_data
\* load_data has returned (it did not raise)
Returned == ld.branch # "none" /\ ~ld.raised

\* the set of elements of a sequence
Elems(sq) == {sq[i] : i \in 1..Len(sq)}

FeatureTables == {ld.ret[1].df, ld.ret[2].df}

LabelTables == {ld.ret[3].df, ld.ret[4].df}

\* C1: load_data takes the cached-file branch exactly when the path exists
\* and the synthetic branch otherwise, it never reads the file when the
\* path does not exist, and what it returns is the four tables in the
\* order X_train, X_test, y_train, y_test.
C1_BranchAndResult ==
    ld.branch # "none" =>
        /\ (ld.branch = "cached") <=> file.present
        /\ (ld.branch = "random") <=> ~file.present
        /\ ~file.present => ~ld.read
        /\ ~ld.raised =>
              /\ [i \in 1..Len(ld.ret) |-> ld.ret[i].name]
                    = <<"df_X_train", "df_X_test", "df_y_train", "df_y_test">>
              /\ \A t \in FeatureTables : t.src = ld.X.cols
              /\ \A t \in LabelTables :
                    t.columns # <<>> => t.src = ld.y.cols

C1_Witness ==
    /\ Returned /\ ld.branch = "cached" /\ ld.read
    /\ Len(ld.ret) = 4 /\ nrows >= 2

\* the split of one array into a train and a test table, as the claim states it
SplitIsPartition(train, test, A) ==
    LET t == (4 * nrows) \div 5
    IN  /\ Len(A.rows) = nrows
        /\ train.pos = [i \in 1..t |-> i - 1]
        /\ test.pos = [i \in 1..(nrows - t) |-> t + i - 1]
        /\ Len(train.rows) = t
        /\ Len(test.rows) = nrows - t
        /\ Elems(train.pos) \cap Elems(test.pos) = {}
        /\ Elems(train.pos) \cup Elems(test.pos) = {i - 1 : i \in 1..nrows}
        /\ train.rows \o test.rows = A.rows

HoldsNoRows(t) == t.pos = <<>> /\ t.rows = <<>>

\* C2 as stated: for every nrows >= 0 and in both branches, the train tables
\* hold the first floor(0.8*nrows) rows and the test tables the remaining
\* ones, a partition of the nrows-row dataset in its original order.
C2_Original ==
    Returned =>
        /\ SplitIsPartition(ld.ret[1].df, ld.ret[2].df, ld.X)
        /\ SplitIsPartition(ld.ret[3].df, ld.ret[4].df, ld.y)

\* C2 amended: the split is that partition for the feature tables when they
\* have at least one column and for the label tables when they have at
\* least one column; a table built without any column holds no rows.
C2_SplitIsPartition ==
    Returned =>
        /\ Len(ld.X.rows) = nrows /\ Len(ld.y.rows) = nrows
        /\ IF Len(ld.X.cols) >= 1
           THEN SplitIsPartition(ld.ret[1].df, ld.ret[2].df, ld.X)
           ELSE \A t \in FeatureTables : HoldsNoRows(t)
        /\ IF Len(ld.y.cols) >= 1
           THEN SplitIsPartition(ld.ret[3].df, ld.ret[4].df, ld.y)
           ELSE \A t \in LabelTables : HoldsNoRows(t)

C2_Witness ==
    /\ Returned /\ nrows = 3 /\ ld.branch = "cached"
    /\ Len(ld.X.cols) >= 1 /\ Len(ld.y.cols) >= 1
    /\ Len(ld.ret[1].df.rows) = 2 /\ Len(ld.ret[2].df.rows) = 1

\* C7: in the cached branch the label y is column index 4 of the array as
\* loaded from the file, the column that is removed from the features.
C7_LabelIsColumn4 ==
    (Returned /\ ld.branch = "cached" /\ Len(ld.loaded.cols) > LabelCol) =>
        /\ ld.y.cols = <<ld.loaded.cols[LabelCol + 1]>>
        /\ ld.loaded.cols[LabelCol + 1] \notin Elems(ld.X.cols)

\* C8: in the cached branch, for every ncols >= 0, no column of the feature
\* tables is the same source column as a column of the label tables.
C8_LabelNotAFeature ==
    (Returned /\ ld.branch = "cached") =>
        \A t \in FeatureTables : \A u \in LabelTables :
            Elems(t.src) \cap Elems(u.src) = {}

\* C9: features and labels stay row-aligned through sampling and splitting,
\* X and y tables of a partition have the same number of rows, X_train and
\* X_test have the same column names fea0..fea(k-1), and the label tables
\* have exactly one column, named fea0.
C9_RowAligned ==
    Returned =>
        /\ ld.ret[1].df.rows = ld.ret[3].df.rows
        /\ ld.ret[2].df.rows = ld.ret[4].df.rows
        /\ ld.ret[1].df.pos = ld.ret[3].df.pos
        /\ ld.ret[2].df.pos = ld.ret[4].df.pos
        /\ ld.ret[1].df.columns = ld.ret[2].df.columns
        /\ ld.ret[1].df.columns
              = [i \in 1..Len(ld.ret[1].df.columns) |-> <<"fea", i - 1>>]
        /\ \A u \in LabelTables : u.columns = << <<"fea", 0>> >>

\* ------------------------------------------------- claims on the drivers
\* the provenance of a table or series, whatever library holds it
Data(t) == [src |-> t.src, pos |-> t.pos, rows |-> t.rows]

\* the same hyperparameter under the name each library gives it
\* (max_iter of SGDRegressor is epochs of cumlSGD)
SkToCu(k) == IF k = "max_iter" THEN "epochs" ELSE k

CuToSk(k) == IF k = "epochs" THEN "max_iter" ELSE k

VarsUsedBy(m) == {m.params[k].var : k \in DOMAIN m.params}

\* C4: every hyperparameter passed explicitly to one library's constructor
\* is passed to the other's with the same value, and every parameter
\* variable that is set is used by both constructors.
C4_IdenticalHyperparameters ==
    (sk.constructed /\ cu.constructed) =>
        /\ \A k \in DOMAIN sk.params :
              /\ SkToCu(k) \in DOMAIN cu.params
              /\ cu.params[SkToCu(k)].val = sk.params[k].val
        /\ \A k \in DOMAIN cu.params :
              /\ CuToSk(k) \in DOMAIN sk.params
              /\ sk.params[CuToSk(k)].val = cu.params[k].val
        /\ \A v \in DOMAIN params :
              v \in VarsUsedBy(sk) /\ v \in VarsUsedBy(cu)

\* C5: in a top-to-bottom run each model is fitted before it predicts, both
\* are fitted on the training partition and predict only on the held-out
\* partition, each error is computed against y_test, printing happens only
\* after both errors are computed, and no training row position is used
\* for evaluation.
C5_RunOrder ==
    /\ \A m \in {sk, cu} :
          m.fitted =>
             /\ Data(m.fitX[1]) = Data(X_train)
             /\ m.fity[1].pos = y_train.pos
             /\ m.fity[1].rows = y_train.rows
             /\ m.fity[1].src = [j \in 1..Min(1, Len(y_train.src)) |-> y_train.src[j]]
    /\ \A p \in preds :
          /\ p.fitted
          /\ Data(p.on) = Data(X_test)
          /\ \A m \in {sk, cu} :
                m.fitted => Elems(p.on.pos) \cap Elems(m.fitX[1].pos) = {}
    /\ \A i \in 1..Len(errs) :
          /\ errs[i].mse.truth = y_test
          /\ errs[i].mse.pred \in preds
          /\ errs[i].mse.pred.by = (IF errs[i].name = "error_sk" THEN "sk" ELSE "cu")
    /\ printed # <<>> =>
          /\ Len(ErrorNamed("error_sk")) = 1
          /\ Len(ErrorNamed("error_cu")) = 1
          /\ printed[1].value = ErrorNamed("error_sk")
          /\ printed[2].value = ErrorNamed("error_cu")

C5_Witness ==
    /\ pc = "done" /\ printed # <<>> /\ nrows = 3
    /\ sk.fitted /\ cu.fitted /\ Cardinality(preds) = 2
    /\ Len(X_train.rows) = 2 /\ Len(X_test.rows) = 1

\* ------------------------------------------------ array_equal, to_nparray
\* the element values considered
Vals == {-1, 0, 1}

\* thresholds are rationals threshold / ThresholdDen
ThresholdDen == 1000

\* threshold=2e-3
DefaultThreshold == 2

Thresholds == {0, DefaultThreshold, ThresholdDen, 4 * ThresholdDen}

\* A python object handed to the helpers.  data holds the elements the way
\* the type stores them: row-major for an ndarray, column by column for a
\* pandas or cudf DataFrame.
Obj(type, ndim, nrow, ncol, data) ==
    [type |-> type, ndim |-> ndim, nrow |-> nrow, ncol |-> ncol, data |-> data]

Fill(n, f) == [k \in 1..n |-> ((k + f) % 3) - 1]

Scalars(type) == {Obj(type, 0, 1, 1, <<v>>) : v \in Vals}

Vectors(type) ==
    {Obj(type, 1, Len(d), 1, d) : d \in UNION {[1..k -> Vals] : k \in 0..MaxLen}}

Matrices(type) ==
    {Obj(type, 2, r, c, Fill(r * c, f)) : r \in 1..MaxDim, c \in 1..MaxDim, f \in 0..2}

Objects ==
    Vectors("ndarray") \cup Matrices("ndarray")
    \cup Matrices("pd.DataFrame") \cup Scalars("np.float64")
    \cup Matrices("cudf.DataFrame") \cup Vectors("cudf.Series")
    \cup Vectors("list") \cup Scalars("float")

\* variant: the column-by-column storage taken as if it were row-major
FrameValues_AsStored(x) == Obj("ndarray", 2, x.nrow, x.ncol, x.data)

\* the row-major 2-d array of a frame that stores its data by column:
\* np.array(df), df.values
FrameValues(x) ==
    Obj("ndarray", 2, x.nrow, x.ncol,
        [k \in 1..(x.nrow * x.ncol) |->
            LET i == ((k - 1) \div x.ncol) + 1
                j == ((k - 1) % x.ncol) + 1
            IN  x.data[(j - 1) * x.nrow + i]])

\* np.array(x) for an ndarray or a pandas DataFrame
np_array(x) == IF x.type = "pd.DataFrame" THEN FrameValues(x)
               ELSE Obj("ndarray", x.ndim, x.nrow, x.ncol, x.data)

\* x.to_pandas().values for a cudf DataFrame or Series
to_pandas_values(x) ==
    IF x.type = "cudf.DataFrame" THEN FrameValues(x)
    ELSE Obj("ndarray", 1, x.nrow, 1, x.data)

to_nparray(x) ==
    IF x.type = "ndarray" \/ x.type = "pd.DataFrame" THEN np_array(x)
    ELSE IF x.type = "np.float64" THEN Obj("ndarray", 1, 1, 1, <<x.data[1]>>)
    ELSE IF x.type = "cudf.DataFrame" \/ x.type = "cudf.Series"
         THEN to_pandas_values(x)
    ELSE x

\* x.ravel(): only an ndarray has the method among the objects considered
HasRavel(x) == x.type = "ndarray"

ravel(x) == Obj("ndarray", 1, Len(x.data), 1, x.data)

Abs(v) == IF v < 0 THEN 0 - v ELSE v

np_abs(x) == [x EXCEPT !.data = [k \in 1..Len(x.data) |-> Abs(x.data[k])]]

RECURSIVE SumSq(_, _, _)
SumSq(u, v, k) ==
    IF k = 0 THEN 0
    ELSE (u[k] - v[k]) * (u[k] - v[k]) + SumSq(u, v, k - 1)

\* mean_squared_error(a, b) as the fraction num / den; it raises for
\* inputs of different lengths and for empty inputs
MseRaises(u, v) == Len(u.data) # Len(v.data) \/ Len(u.data) = 0

Mse(u, v) == [num |-> SumSq(u.data, v.data, Len(u.data)), den |-> Len(u.data)]

\* variant: a non-strict comparison with the threshold
LessThanThreshold_OrEqual(error, t) == error.num * ThresholdDen <= t * error.den

\* error < threshold, for error = num/den and threshold = t/ThresholdDen
LessThanThreshold(error, t) == error.num * ThresholdDen < t * error.den

array_equal(x, y, t, sign) ==
    LET cx == to_nparray(x)
        cy == to_nparray(y)
    IN  IF ~HasRavel(cx) \/ ~HasRavel(cy) THEN "AttributeError"
        ELSE LET rx == ravel(cx)
                 ry == ravel(cy)
                 ax == IF sign = FALSE THEN np_abs(rx) ELSE rx
                 ay == IF sign = FALSE THEN np_abs(ry) ELSE ry
             IN  IF MseRaises(ax, ay) THEN "ValueError"
                 ELSE IF LessThanThreshold(Mse(ax, ay), t) THEN "True"
                 ELSE "False"

InitEq ==
    /\ a \in Objects
    /\ b \in Objects
    /\ threshold \in Thresholds
    /\ with_sign \in BOOLEAN
    /\ na = <<>> /\ nbb = <<>> /\ res = "none" /\ epc = "ready"
    /\ nb = "none" /\ nrows = 0 /\ ncols = 0 /\ file = NoFile
    /\ pc = "off"
    /\ ld = LdInit
    /\ params = <<>>
    /\ y_train_ser = <<>>
    /\ sk = NewModel("sk")
    /\ cu = NewModel("cu")
    /\ gpu = <<>>
    /\ preds = {}
    /\ errs = <<>>
    /\ printed = <<>>

\* res = array_equal(a, b, threshold, with_sign)
CallArrayEqual ==
    /\ epc = "ready"
    /\ na' = <<to_nparray(a)>>
    /\ nbb' = <<to_nparray(b)>>
    /\ res' = array_equal(a, b, threshold, with_sign)
    /\ epc' = "array_equal"
    /\ UNCHANGED <<a, b, threshold, with_sign, pc, loadVars, runVars>>

\* y_pred = to_nparray(y_pred).ravel()
CallToNparray ==
    /\ epc = "ready"
    /\ na' = <<to_nparray(a)>>
    /\ res' = IF HasRavel(to_nparray(a)) THEN "raveled" ELSE "AttributeError"
    /\ epc' = "to_nparray"
    /\ UNCHANGED <<a, b, threshold, with_sign, nbb, pc, loadVars, runVars>>

NextEq ==
    \/ CallArrayEqual
    \/ CallToNparray

SpecEq == InitEq /\ [][NextEq]_vars

\* the elements of an input read row by row, whatever its storage
ElementAt(x, i, j) ==
    IF x.type \in {"pd.DataFrame", "cudf.DataFrame"}
    THEN x.data[(j - 1) * x.nrow + i]
    ELSE x.data[(i - 1) * x.ncol + j]

Flat(x) ==
    [k \in 1..(x.nrow * x.ncol) |->
        ElementAt(x, ((k - 1) \div x.ncol) + 1, ((k - 1) % x.ncol) + 1)]

Negated(x) == [x EXCEPT !.data = [k \in 1..Len(x.data) |-> 0 - x.data[k]]]

Comparable(v) == IF with_sign = FALSE THEN Abs(v) ELSE v

SumSqDiff(u, v) == SumSq([k \in 1..Len(u) |-> Comparable(u[k])],
                         [k \in 1..Len(v) |-> Comparable(v[k])], Len(u))

Answered == epc = "array_equal" /\ res \in {"True", "False"}

\* the mean of the squared differences is strictly below the threshold
StrictlyBelow ==
    Answered =>
        (res = "True" <=>
            SumSqDiff(Flat(a), Flat(b)) * ThresholdDen < threshold * Len(Flat(a)))

\* swapping a and b gives the same answer
Symmetric == Answered => array_equal(b, a, threshold, with_sign) = res

\* C3 as stated: true exactly when the mean squared difference is strictly
\* below the threshold; with with_sign False, a and its element-wise
\* negation compare equal; swapping a and b does not change the result.
C3_Original ==
    /\ StrictlyBelow
    /\ Symmetric
    /\ (Answered /\ with_sign = FALSE /\ b = Negated(a)) => res = "True"

\* C3 amended: as stated, except that a and its negation compare equal only
\* for a positive threshold (the mean is then 0, and 0 < threshold).
C3_StrictThreshold ==
    /\ StrictlyBelow
    /\ Symmetric
    /\ (Answered /\ with_sign = FALSE /\ b = Negated(a))
          => (res = "True" <=> threshold > 0)

\* an error equal to the threshold, answered false
C3_Witness ==
    /\ Answered /\ res = "False" /\ threshold > 0
    /\ SumSqDiff(Flat(a), Flat(b)) * ThresholdDen = threshold * Len(Flat(a))

ListedTypes ==
    {"ndarray", "pd.DataFrame", "np.float64", "cudf.DataFrame", "cudf.Series"}

Converted == epc \in {"array_equal", "to_nparray"}

\* the result is a numpy array with the values of x in the same order
SameValuesAsArray(x, r) ==
    /\ r.type = "ndarray"
    /\ r.data = Flat(x)
    /\ x.type = "np.float64" => (r.ndim = 1 /\ Len(r.data) = 1)
    /\ x.ndim = 2 =>
          /\ r.ndim = 2 /\ r.nrow = x.nrow /\ r.ncol = x.ncol
          /\ \A i \in 1..x.nrow : \A j \in 1..x.ncol :
                r.data[(i - 1) * x.ncol + j] = ElementAt(x, i, j)

\* C6 as stated: for the five listed types the result is a numpy array with
\* the same values in the same order, and for every input the result is a
\* numpy array, so the ravel step never fails.
C6_Original ==
    Converted =>
        /\ a.type \in ListedTypes => SameValuesAsArray(a, na[1])
        /\ na[1].type = "ndarray"
        /\ res # "AttributeError"

\* C6 amended: for the five listed types the result is a numpy array with
\* the same values in the same order and the ravel step does not fail on
\* it; an input of any other type is returned unchanged.
C6_ListedTypesConverted ==
    Converted =>
        /\ a.type \in ListedTypes =>
              /\ SameValuesAsArray(a, na[1])
              /\ epc = "to_nparray" => res = "raveled"
        /\ (epc = "array_equal" /\ a.type \in ListedTypes
                /\ b.type \in ListedTypes)
              => (SameValuesAsArray(b, nbb[1]) /\ res # "AttributeError")
        /\ a.type \notin ListedTypes => na[1] = a

\* a 2 x 2 cudf DataFrame whose row-major reading differs from its storage
C6_Witness ==
    /\ epc = "to_nparray" /\ a.type = "cudf.DataFrame"
    /\ a.nrow = 2 /\ a.ncol = 2 /\ na[1].data # a.data
    /\ res = "raveled"

====
